---- MODULE Spec2Model ----
(***************************************************************************)
(* Model of src/appv2.py: the themed napkin prompt generator.              *)
(*                                                                         *)
(* Text is modelled as a sequence of atoms.  An atom is one whitespace     *)
(* character (" ", "\t", "\n"), one punctuation character of the format    *)
(* mini-language ("{", "}", "!", ":", "."), one non-ASCII code point       *)
(* (written "U+XXXX") or a run of other non-whitespace characters (a       *)
(* word).  The Python string an atom sequence stands for is the            *)
(* concatenation of its atoms; strip(), split() and the parser of          *)
(* str.format_map only look at whitespace and at the punctuation above,    *)
(* so they are computed on atoms exactly as Python computes them on        *)
(* characters.                                                             *)
(***************************************************************************)
EXTENDS Integers, Sequences, FiniteSets, TLC

VARIABLES
    NAPKIN_TEMPLATE,      \* module global, loaded once per run (line 45)
    THEMES_PRESETS_MIN,   \* module global dict of dicts (lines 50-176)
    calls,                \* the calls of build_napkin_prompt made so far, with their outcomes
    budget,               \* how many more calls or submits the run explores
    client,               \* the OpenAI client, or "None" without an API key (line 22)
    db,                   \* the prompt store of core.prompt_store
    db_at_start,          \* the prompt store as the session found it
    session_state,        \* st.session_state (lines 36-39)
    theme_key, size, quality, extra,   \* the values of the form's widgets (lines 208-237)
    default_size, default_quality,     \* lines 212-213
    pc,                   \* "idle", or "generating" while images.generate is awaited
    gen_kwargs,           \* the request in flight (line 282)
    api_calls, saves,     \* calls of images.generate and of save_prompt in the current run
    shown,                \* what the current run has put on the page, in order
    submitted,            \* whether the current run is a submit (line 239)
    outcome,              \* how the awaited images.generate ended in the current run
    locals                \* the locals of the last call of build_napkin_prompt

(***************************************************************************)
(* Strings.                                                                *)
(***************************************************************************)
IsSpace(a) == a \in {" ", "\t", "\n"}

DASH == <<"U+2014">>

RECURSIVE LStrip(_)
LStrip(s) == IF s # <<>> /\ IsSpace(Head(s)) THEN LStrip(Tail(s)) ELSE s

RECURSIVE RStrip(_)
RStrip(s) ==
    IF s # <<>> /\ IsSpace(s[Len(s)]) THEN RStrip(SubSeq(s, 1, Len(s) - 1)) ELSE s

\* str.strip() with no argument: leading and trailing whitespace removed
Strip(s) == RStrip(LStrip(s))

\* first index >= i of s holding whitespace, Len(s) + 1 if there is none
RECURSIVE NextSpace(_, _)
NextSpace(s, i) ==
    IF i > Len(s) \/ IsSpace(s[i]) THEN i ELSE NextSpace(s, i + 1)

\* str.split() with no argument: the maximal runs of non-whitespace
RECURSIVE Split(_)
Split(s) ==
    LET t == LStrip(s)
        j == NextSpace(t, 1)
    IN  IF t = <<>> THEN <<>>
        ELSE <<SubSeq(t, 1, j - 1)>> \o Split(SubSeq(t, j, Len(t)))

\* " ".join(words)
RECURSIVE Join(_)
Join(words) ==
    IF words = <<>> THEN <<>>
    ELSE IF Len(words) = 1 THEN words[1]
    ELSE words[1] \o <<" ">> \o Join(Tail(words))

(***************************************************************************)
(* The preset table, lines 50-176.                                         *)
(***************************************************************************)
SpringGardenWedding == <<"U+1F338", " ", "Spring", " ", "Garden", " ", "Wedding">>
WoodlandBirthday == <<"U+1F407", " ", "Woodland", " ", "Birthday">>
FestiveHoliday == <<"U+1F98C", " ", "Festive", " ", "Holiday">>
LuxuryDinner == <<"U+2728", " ", "Luxury", " ", "Dinner">>
TropicalParty == <<"U+1F334", " ", "Tropical", " ", "Party">>
THEME_KEYS == <<SpringGardenWedding, WoodlandBirthday, FestiveHoliday, LuxuryDinner, TropicalParty>>
PresetSpringGardenWedding ==
    [ motif |-> <<"watercolor", " ", "peony-and-lavender", " ", "floral", " ", "wreath">>,
      background_treatment |-> <<"soft", " ", "blush", " ", "pastel", " ", "wash">>,
      illustration_style |-> <<"hand-painted", " ", "watercolor", " ", "with", " ", "delicate", " ", "linework">>,
      botanical_motifs |-> <<"lavender", " ", "sprigs,", " ", "peonies,", " ", "eucalyptus">>,
      animal_motifs |-> <<"none">>,
      rim_style |-> <<"scalloped", " ", "rim", " ", "with", " ", "subtle", " ", "gold", " ", "foil", " ", "edge">>,
      background_library |-> <<"pastel", " ", "wash,", " ", "faint", " ", "diagonal", " ", "stripes">>,
      base_tones |-> <<"blush", " ", "pink,", " ", "cream,", " ", "ivory">>,
      accent_colors |-> <<"sage", " ", "green,", " ", "lavender">>,
      metallic_finish |-> <<"gold", " ", "foil", " ", "accents">>,
      decorative_florals |-> <<"flowing", " ", "natural", " ", "sprigs">>,
      decorative_icons |-> <<"tiny", " ", "bows", " ", "or", " ", "petals", " ", "(sparingly)">>,
      border_style |-> <<"gold", " ", "rim", " ", "with", " ", "sparse", " ", "floral", " ", "repeats">>,
      finish_spec |-> <<"matte", " ", "base", " ", "with", " ", "selective", " ", "glossy", " ", "floral", " ", "highlights">>,
      aspect |-> <<"square">>,
      api_size |-> <<"1024x1024">>,
      quality_hint |-> <<"hd">>,
      typography_style |-> <<"calligraphic", " ", "script">>,
      typography_placement |-> <<"subtle", " ", "rim", " ", "placement">>,
      typography_color |-> <<"metallic", " ", "gold">>,
      theme_notes |-> <<"Wedding", " ", "elegance;", " ", "keep", " ", "palette", " ", "airy", " ", "and", " ", "romantic.">>,
      use_typography |-> <<"no">>,
      typography_copy |-> <<>> ]
PresetWoodlandBirthday ==
    [ motif |-> <<"whimsical", " ", "bunny", " ", "illustration", " ", "with", " ", "floral", " ", "sprigs">>,
      background_treatment |-> <<"soft", " ", "diagonal", " ", "stripe">>,
      illustration_style |-> <<"realistic", " ", "sketch", " ", "with", " ", "soft", " ", "watercolor", " ", "fill">>,
      botanical_motifs |-> <<"wildflowers,", " ", "lavender">>,
      animal_motifs |-> <<"bunny,", " ", "small", " ", "songbirds">>,
      rim_style |-> <<"rounded", " ", "rim", " ", "with", " ", "thin", " ", "gold", " ", "foil", " ", "edge">>,
      background_library |-> <<"soft", " ", "stripes,", " ", "pastel", " ", "wash">>,
      base_tones |-> <<"pastels", "U+2014", "lavender,", " ", "blush,", " ", "cream">>,
      accent_colors |-> <<"sunshine", " ", "yellow,", " ", "turquoise">>,
      metallic_finish |-> <<"gold", " ", "shimmer", " ", "accents">>,
      decorative_florals |-> <<"hand-painted", " ", "sprigs">>,
      decorative_icons |-> <<"stars", " ", "and", " ", "tiny", " ", "bows">>,
      border_style |-> <<"gold", " ", "rim", " ", "with", " ", "tiny", " ", "star", " ", "repeats">>,
      finish_spec |-> <<"matte", " ", "with", " ", "glossy", " ", "highlights", " ", "on", " ", "motif">>,
      aspect |-> <<"square">>,
      api_size |-> <<"1024x1024">>,
      quality_hint |-> <<"standard">>,
      typography_style |-> <<"rounded", " ", "friendly">>,
      typography_placement |-> <<"small", " ", "banner", " ", "below", " ", "motif">>,
      typography_color |-> <<"deep", " ", "green">>,
      theme_notes |-> <<"Child-friendly", " ", "but", " ", "elegant;", " ", "avoid", " ", "clutter.">>,
      use_typography |-> <<"no">>,
      typography_copy |-> <<>> ]
PresetFestiveHoliday ==
    [ motif |-> <<"regal", " ", "deer", " ", "with", " ", "holly", " ", "vines", " ", "and", " ", "red", " ", "berries">>,
      background_treatment |-> <<"ivory", " ", "with", " ", "subtle", " ", "gradient", " ", "fade">>,
      illustration_style |-> <<"detailed", " ", "watercolor", " ", "with", " ", "precise", " ", "linework">>,
      botanical_motifs |-> <<"holly,", " ", "evergreen", " ", "sprigs">>,
      animal_motifs |-> <<"deer,", " ", "winter", " ", "birds">>,
      rim_style |-> <<"circular", " ", "rim", " ", "with", " ", "bold", " ", "gold", " ", "foil">>,
      background_library |-> <<"muted", " ", "gradient,", " ", "light", " ", "pastel", " ", "wash">>,
      base_tones |-> <<"ivory,", " ", "taupe">>,
      accent_colors |-> <<"berry", " ", "red,", " ", "deep", " ", "green">>,
      metallic_finish |-> <<"rich", " ", "gold", " ", "foil">>,
      decorative_florals |-> <<"holly", " ", "sprigs">>,
      decorative_icons |-> <<"snowflakes", " ", "(minimal)">>,
      border_style |-> <<"gold", " ", "rim", " ", "with", " ", "holly", " ", "berry", " ", "repeats", " ", "(very", " ", "subtle)">>,
      finish_spec |-> <<"glossy", " ", "highlights", " ", "on", " ", "metallics,", " ", "matte", " ", "base">>,
      aspect |-> <<"square">>,
      api_size |-> <<"1024x1024">>,
      quality_hint |-> <<"hd">>,
      typography_style |-> <<"elegant", " ", "calligraphy">>,
      typography_placement |-> <<"integrated", " ", "along", " ", "the", " ", "rim">>,
      typography_color |-> <<"metallic", " ", "gold", " ", "or", " ", "berry", " ", "red">>,
      theme_notes |-> <<"Premium", " ", "holiday", " ", "tone;", " ", "emphasize", " ", "contrast", " ", "and", " ", "foil.">>,
      use_typography |-> <<"no">>,
      typography_copy |-> <<>> ]
PresetLuxuryDinner ==
    [ motif |-> <<"minimalist", " ", "geometric", " ", "center", " ", "medallion">>,
      background_treatment |-> <<"deep", " ", "charcoal", " ", "black">>,
      illustration_style |-> <<"modern", " ", "vector", " ", "with", " ", "subtle", " ", "bevel">>,
      botanical_motifs |-> <<"none">>,
      animal_motifs |-> <<"none">>,
      rim_style |-> <<"precise", " ", "thin", " ", "gold", " ", "rim">>,
      background_library |-> <<"flat", " ", "or", " ", "micro-texture">>,
      base_tones |-> <<"black,", " ", "charcoal">>,
      accent_colors |-> <<"gold", " ", "only,", " ", "minimal">>,
      metallic_finish |-> <<"high-polish", " ", "gold">>,
      decorative_florals |-> <<"none">>,
      decorative_icons |-> <<"none">>,
      border_style |-> <<"gold", " ", "rim,", " ", "no", " ", "repeats">>,
      finish_spec |-> <<"glossy", " ", "metallic", " ", "on", " ", "matte", " ", "base">>,
      aspect |-> <<"square">>,
      api_size |-> <<"1024x1024">>,
      quality_hint |-> <<"hd">>,
      typography_style |-> <<"none">>,
      typography_placement |-> <<"none">>,
      typography_color |-> <<"gold">>,
      theme_notes |-> <<"Keep", " ", "ultra-minimal;", " ", "rely", " ", "on", " ", "contrast", " ", "and", " ", "finish.">>,
      use_typography |-> <<"no">>,
      typography_copy |-> <<>> ]
PresetTropicalParty ==
    [ motif |-> <<"palm", " ", "leaves", " ", "and", " ", "hibiscus", " ", "floral", " ", "ring">>,
      background_treatment |-> <<"turquoise", " ", "wash", " ", "with", " ", "subtle", " ", "grain">>,
      illustration_style |-> <<"vibrant", " ", "watercolor", " ", "+", " ", "vector", " ", "clean-up">>,
      botanical_motifs |-> <<"palm,", " ", "monstera,", " ", "hibiscus">>,
      animal_motifs |-> <<"butterflies", " ", "or", " ", "tropical", " ", "birds", " ", "(sparingly)">>,
      rim_style |-> <<"gold", " ", "rim", " ", "with", " ", "sparse", " ", "floral", " ", "accents">>,
      background_library |-> <<"pastel", " ", "wash,", " ", "subtle", " ", "grain,", " ", "soft", " ", "stripes">>,
      base_tones |-> <<"turquoise,", " ", "ivory">>,
      accent_colors |-> <<"sunshine", " ", "yellow,", " ", "berry", " ", "red">>,
      metallic_finish |-> <<"gold", " ", "foil", " ", "accents">>,
      decorative_florals |-> <<"loose", " ", "hand-painted", " ", "leaves">>,
      decorative_icons |-> <<"tiny", " ", "stars", " ", "(optional)">>,
      border_style |-> <<"gold", " ", "rim", " ", "with", " ", "tiny", " ", "hibiscus", " ", "repeats">>,
      finish_spec |-> <<"matte", " ", "base", " ", "with", " ", "selective", " ", "glossy", " ", "floral", " ", "highlights">>,
      aspect |-> <<"square">>,
      api_size |-> <<"1024x1024">>,
      quality_hint |-> <<"standard">>,
      typography_style |-> <<"friendly", " ", "rounded">>,
      typography_placement |-> <<"subtle", " ", "banner", " ", "or", " ", "lower", " ", "rim">>,
      typography_color |-> <<"gold", " ", "or", " ", "deep", " ", "green">>,
      theme_notes |-> <<"Lively", " ", "and", " ", "premium;", " ", "avoid", " ", "over-saturation.">>,
      use_typography |-> <<"no">>,
      typography_copy |-> <<>> ]

PresetTable ==
    [ t \in { THEME_KEYS[i] : i \in DOMAIN THEME_KEYS } |->
        CASE t = SpringGardenWedding -> PresetSpringGardenWedding
          [] t = WoodlandBirthday -> PresetWoodlandBirthday
          [] t = FestiveHoliday -> PresetFestiveHoliday
          [] t = LuxuryDinner -> PresetLuxuryDinner
          [] t = TropicalParty -> PresetTropicalParty ]

ThemeKeys == DOMAIN PresetTable

(***************************************************************************)
(* str.format_map, called on line 196.  A result is a record: raised is    *)
(* "none" or the name of the exception, value the rendered text.           *)
(***************************************************************************)
Ok(v) == [raised |-> "none", value |-> v]
Raise(e) == [raised |-> e, value |-> <<>>]

\* the exception a regular dict raises for a key it does not hold
dict__missing__(key) == Raise("KeyError")

\* _SafeDict.__missing__, lines 182-184
_SafeDict__missing__(key) == Ok(<<>>)

\* mapping[key] on a _SafeDict: a dict key is one word; anything else is missing
GetItem(mapping, key) ==
    IF Len(key) = 1 /\ key[1] \in DOMAIN mapping
    THEN Ok(mapping[key[1]])
    ELSE _SafeDict__missing__(key)

\* first index >= i of s holding an atom of set, Len(s) + 1 if there is none
RECURSIVE NextOf(_, _, _)
NextOf(s, i, set) ==
    IF i > Len(s) \/ s[i] \in set THEN i ELSE NextOf(s, i + 1, set)

\* atoms that stand for exactly one character
SingleChar(a) == a \in {"{", "}", "!", ":", ".", " ", "\t", "\n", "r", "'"}

\* the end of a format spec that starts at q: the "}" closing the field,
\* nested braces counted; 0 when the text ends first
RECURSIVE SpecEnd(_, _, _)
SpecEnd(s, q, count) ==
    IF q > Len(s) THEN 0
    ELSE IF s[q] = "{" THEN SpecEnd(s, q + 1, count + 1)
    ELSE IF s[q] = "}"
         THEN IF count = 1 THEN q ELSE SpecEnd(s, q + 1, count - 1)
    ELSE SpecEnd(s, q + 1, count)

Field(name, conv, spec, next) ==
    [raised |-> "none", name |-> name, conv |-> conv, spec |-> spec, next |-> next]

\* the field's format spec, from q to the closing brace
ParseSpec(s, name, conv, q) ==
    LET e == SpecEnd(s, q, 1)
    IN  IF e = 0 THEN Raise("ValueError")    \* unmatched '{' in format spec
        ELSE Field(name, conv, SubSeq(s, q, e - 1), e + 1)

\* parse_field: the replacement field whose text starts at k, after its "{"
parse_field(s, k) ==
    LET e == NextOf(s, k, {"{", "}", ":", "!"})
        name == SubSeq(s, k, e - 1)
    IN  IF e > Len(s) THEN Raise("ValueError")      \* expected '}' before end of string
        ELSE IF s[e] = "{" THEN Raise("ValueError") \* unexpected '{' in field name
        ELSE IF s[e] = "}" THEN Field(name, "", <<>>, e + 1)
        ELSE IF s[e] = ":" THEN ParseSpec(s, name, "", e + 1)
        ELSE \* "!": one character of conversion, then "}" or ":"
             IF e = Len(s) THEN Raise("ValueError") \* end of string while looking for conversion
             ELSE IF ~SingleChar(s[e + 1]) THEN Raise("ValueError") \* expected ':' after conversion
             ELSE IF e + 1 = Len(s) THEN ParseSpec(s, name, s[e + 1], e + 2)
             ELSE IF s[e + 2] = "}" THEN Field(name, s[e + 1], <<>>, e + 3)
             ELSE IF s[e + 2] # ":" THEN Raise("ValueError") \* expected ':' after conversion
             ELSE ParseSpec(s, name, s[e + 1], e + 3)

\* get_field_object: mapping[first], then the attribute accesses of the rest
get_field_object(name, mapping) ==
    LET d == NextOf(name, 1, {"."})
        first == SubSeq(name, 1, d - 1)
        obj == GetItem(mapping, first)
    IN  IF first = <<>> THEN Raise("ValueError")    \* positional field under format_map
        ELSE IF obj.raised # "none" THEN obj
        ELSE IF d > Len(name) THEN obj
        ELSE IF NextOf(name, d + 1, {"."}) = d + 1
             THEN Raise("ValueError")               \* empty attribute in format string
        ELSE Raise("AttributeError")                \* a str has no attribute of that name

\* repr() of a str that holds no quote and no backslash
ReprAtom(a) == IF a = "\n" THEN "\\n" ELSE IF a = "\t" THEN "\\t" ELSE a
Repr(v) == <<"'">> \o [i \in DOMAIN v |-> ReprAtom(v[i])] \o <<"'">>

\* do_conversion: !r is repr(); no other conversion character is in the alphabet
do_conversion(obj, conv) ==
    IF conv = "" THEN Ok(obj)
    ELSE IF conv = "r" THEN Ok(Repr(obj))
    ELSE Raise("ValueError")                        \* unknown conversion specifier

\* format(str, spec): over the model's alphabet and values no non-empty text
\* is a valid format spec of a str
render_field(obj, spec) ==
    IF spec = <<>> THEN Ok(obj) ELSE Raise("ValueError")

\* build_string: the text from position i on, rendered against mapping
RECURSIVE build_string(_, _, _, _)
build_string(s, i, mapping, recursion_depth) ==
    LET j == NextOf(s, i, {"{", "}"})
        at_end == j = Len(s)
        f == parse_field(s, j + 1)
        obj == get_field_object(f.name, mapping)
        conv == do_conversion(obj.value, f.conv)
        spec == IF \E q \in DOMAIN f.spec : f.spec[q] = "{"
                THEN build_string(f.spec, 1, mapping, recursion_depth - 1)
                ELSE Ok(f.spec)
        out == render_field(conv.value, spec.value)
        rest == build_string(s, IF s[j + 1] = s[j] THEN j + 2 ELSE f.next,
                             mapping, recursion_depth)
    IN  IF recursion_depth <= 0 THEN Raise("ValueError")  \* max string recursion exceeded
        ELSE IF j > Len(s) THEN Ok(SubSeq(s, i, Len(s)))
        ELSE IF s[j] = "}" /\ (at_end \/ s[j + 1] # "}")
             THEN Raise("ValueError")                     \* single '}' encountered
        ELSE IF at_end THEN Raise("ValueError")           \* single '{' encountered
        ELSE IF s[j + 1] = s[j]                           \* an escaped brace
             THEN IF rest.raised # "none" THEN rest
                  ELSE Ok(SubSeq(s, i, j) \o rest.value)
        ELSE IF f.raised # "none" THEN Raise(f.raised)
        ELSE IF obj.raised # "none" THEN obj
        ELSE IF conv.raised # "none" THEN conv
        ELSE IF spec.raised # "none" THEN spec
        ELSE IF out.raised # "none" THEN out
        ELSE IF rest.raised # "none" THEN rest
        ELSE Ok(SubSeq(s, i, j - 1) \o out.value \o rest.value)

format_map(template, mapping) == build_string(template, 1, mapping, 2)

(***************************************************************************)
(* Prompt builder helpers, lines 187-197.                                  *)
(***************************************************************************)
\* d[key] = value on a dict
SetItem(d, key, value) ==
    [k \in DOMAIN d \cup {key} |-> IF k = key THEN value ELSE d[k]]

\* _safe_clean, lines 187-188; no value of the table is None
_safe_clean(d) == [k \in DOMAIN d |-> Strip(d[k])]

\* the dict that format_map reads, lines 192-194
PromptBase(presets, tk, text) ==
    LET base == presets[tk]                         \* .copy(): a dict of its own
        labelled == SetItem(base, "theme_label", tk)
    IN  SetItem(labelled, "extra", IF Strip(text) # <<>> THEN Strip(text) ELSE DASH)

\* a variant that works on the table's own dict and fills extra in only
\* when the dict has none yet
build_napkin_prompt_shared(presets, template, tk, text) ==
    LET base == presets[tk]
        labelled == SetItem(base, "theme_label", tk)
        filled == IF Strip(text) # <<>> THEN SetItem(labelled, "extra", Strip(text))
                  ELSE IF "extra" \in DOMAIN labelled THEN labelled
                  ELSE SetItem(labelled, "extra", DASH)
        r == format_map(template, _safe_clean(filled))
    IN  [ presets |-> [presets EXCEPT ![tk] = filled],
          mapping |-> _safe_clean(filled),
          formatted |-> r.value,
          raised  |-> r.raised,
          value   |-> IF r.raised = "none" THEN Join(Split(r.value)) ELSE <<>> ]

\* a variant without the .copy() of line 192
build_napkin_prompt_nocopy(presets, template, tk, text) ==
    LET base == PromptBase(presets, tk, text)
        r == format_map(template, _safe_clean(base))
    IN  [ presets |-> [presets EXCEPT ![tk] = base],
          mapping |-> _safe_clean(base),
          formatted |-> r.value,
          raised  |-> r.raised,
          value   |-> IF r.raised = "none" THEN Join(Split(r.value)) ELSE <<>> ]

\* a variant that returns the formatted text as it is
build_napkin_prompt_unjoined(presets, template, tk, text) ==
    LET base == PromptBase(presets, tk, text)
        r == format_map(template, _safe_clean(base))
    IN  [ presets |-> presets,
          mapping |-> _safe_clean(base),
          formatted |-> r.value,
          raised  |-> r.raised,
          value   |-> r.value ]

\* build_napkin_prompt, lines 191-197.  presets is the table as the call
\* leaves it: the call writes to a copy, so the table is as it was.  mapping
\* and formatted are the call's locals: the dict format_map reads and the
\* text it returns.
build_napkin_prompt(presets, template, tk, text) ==
    LET base == PromptBase(presets, tk, text)
        r == format_map(template, _safe_clean(base))
    IN  [ presets |-> presets,
          mapping |-> _safe_clean(base),
          formatted |-> r.value,
          raised  |-> r.raised,
          value   |-> IF r.raised = "none" THEN Join(Split(r.value)) ELSE <<>> ]

(***************************************************************************)
(* The form, lines 206-239.                                                *)
(***************************************************************************)
SizeOptions == << <<"1024x1024">>, <<"1024x1792">>, <<"1792x1024">> >>
QualityOptions == << <<"standard">>, <<"hd">> >>

\* list.index(x), 0-based
IndexOf(options, x) == CHOOSE i \in 0..(Len(options) - 1) : options[i + 1] = x

\* the index argument of the Size selectbox, lines 220-224
SizeIndex(dsize) ==
    IF \E i \in DOMAIN SizeOptions : SizeOptions[i] = dsize
    THEN IndexOf(SizeOptions, dsize)
    ELSE 0

\* a variant that takes the other branch
QualityIndex_swapped(dquality) == IF dquality = <<"standard">> THEN 1 ELSE 0

\* the index argument of the Quality selectbox, line 230
QualityIndex(dquality) == IF dquality = <<"standard">> THEN 0 ELSE 1

\* the option a selectbox shows for an index
OptionAt(options, index) == options[index + 1]

(***************************************************************************)
(* The prompt store, core.prompt_store, and the session, lines 36-39.      *)
(***************************************************************************)
RECENT_LIMIT == 5

\* save_prompt: one entry appended
save_prompt(store, prompt) == Append(store, prompt)

RECURSIVE Reverse(_)
Reverse(s) == IF s = <<>> THEN <<>> ELSE Reverse(Tail(s)) \o <<Head(s)>>

\* get_recent_prompts: the most recent entries, newest first
get_recent_prompts(store, limit) ==
    LET n == Len(store)
    IN  Reverse(SubSeq(store, IF n > limit THEN n - limit + 1 ELSE 1, n))

\* a variant that reads the recent prompts before it saves
SaveAndRefresh_stale(store, session, prompt) ==
    [ db |-> save_prompt(store, prompt),
      session_state |->
          [session EXCEPT !.recent_prompts = get_recent_prompts(store, RECENT_LIMIT)] ]

\* lines 277-278
SaveAndRefresh(store, session, prompt) ==
    LET saved == save_prompt(store, prompt)
    IN  [ db |-> saved,
          session_state |->
              [session EXCEPT !.recent_prompts = get_recent_prompts(saved, RECENT_LIMIT)] ]

(***************************************************************************)
(* The page and the submit handler, lines 270-326.                         *)
(***************************************************************************)
None == "None"

\* `if not client`, line 271, negated; a variant that never takes it follows
ClientConfigured_always(c) == TRUE

ClientConfigured(c) == c # None

\* bool(v) of None, of a str
Truthy(v) == v # None /\ v # ""

Element(widget, detail, i) == [widget |-> widget, detail |-> detail, i |-> i]

MsgNoKey == "OPENAI_API_KEY is not set. Please add it and try again."
MsgCouldNot == "Could not generate the image"
MsgNoImage == "No image returned. Try a different theme or simplify extras."
MsgUnrecognized == "Unrecognized response format."

\* what every run shows before the form, lines 33-34
Setup(c) ==
    IF ClientConfigured(c) THEN <<>>
    ELSE <<Element("warning", "Set OPENAI_API_KEY in your environment or .env file.", 0)>>

\* a variant that always sends the quality
GenKwargs_with_quality(prompt, sz, q) ==
    [model |-> <<"dall-e-3">>, prompt |-> prompt, size |-> sz, quality |-> q]

\* gen_kwargs, lines 281-284
GenKwargs(prompt, sz, q) ==
    LET kwargs == [model |-> <<"dall-e-3">>, prompt |-> prompt, size |-> sz]
    IN  IF q # <<"standard">> THEN SetItem(kwargs, "quality", q) ELSE kwargs

\* a variant whose last branch shows nothing
RenderItem_silent(item, i) ==
    IF Truthy(item.b64_json)
    THEN << Element("image", "b64_json", i), Element("download_button", "image/png", i) >>
    ELSE IF Truthy(item.url)
    THEN << Element("image", "url", i), Element("link", "url", i) >>
    ELSE <<>>

\* one turn of the loop, lines 296-326; Imagine.b64_to_image (core.model) is
\* taken to decode every payload the API returns
RenderItem(item, i) ==
    IF Truthy(item.b64_json)
    THEN << Element("image", "b64_json", i), Element("download_button", "image/png", i) >>
    ELSE IF Truthy(item.url)
    THEN << Element("image", "url", i), Element("link", "url", i) >>
    ELSE << Element("info", MsgUnrecognized, i) >>

RECURSIVE RenderItems(_, _)
RenderItems(data, i) ==
    IF i > Len(data) THEN <<>> ELSE RenderItem(data[i], i) \o RenderItems(data, i + 1)

\* a response: None, or an object whose data is None or a list of items
RespNone == [is_none |-> TRUE, data_is_none |-> TRUE, data |-> <<>>]
RespNoData == [is_none |-> FALSE, data_is_none |-> TRUE, data |-> <<>>]
RespData(items) == [is_none |-> FALSE, data_is_none |-> FALSE, data |-> items]

\* a variant that only tests the response itself
RenderResponse_unguarded(resp) ==
    IF resp.is_none
    THEN << Element("info", MsgNoImage, 0) >>
    ELSE RenderItems(resp.data, 1)

\* lines 291-326
RenderResponse(resp) ==
    IF resp.is_none \/ resp.data_is_none \/ resp.data = <<>>
    THEN << Element("info", MsgNoImage, 0) >>
    ELSE RenderItems(resp.data, 1)

(***************************************************************************)
(* Bounded inputs.                                                         *)
(***************************************************************************)
MaxSegments == 2
MaxCalls == 3
MaxSubmits == 2
MaxItems == 2
MaxStored == 4

\* pieces of template text; a template is up to MaxSegments of them in a row
Snippets ==
    { <<"{">>, <<"}">>, <<" ">>, <<"\n">>, <<"motif">>, <<"!">>, <<":">>, <<".">>, <<"r">>,
      <<"{", "season">>, <<"{", "motif">>,
      <<"!", "r", "}">>, <<".", "r", "}">>, <<":", "{", "season", "}", "}">>,
      <<"{", "season", "}">>, <<"{", "motif", "}">>, <<"{", "extra", "}">>,
      <<"{", "theme_label", "}">> }

RECURSIVE Flatten(_)
Flatten(segs) == IF segs = <<>> THEN <<>> ELSE Head(segs) \o Flatten(Tail(segs))

AnyTemplates ==
    { Flatten(segs) : segs \in UNION { [1..n -> Snippets] : n \in 0..MaxSegments } }

\* templates of the kind line 44 describes: text with placeholders like
\* {motif}, {background_treatment}, {extra}
TemplateA ==
    << "Premium", " ", "napkin,", " ", "{", "theme_label", "}", ":", "\n",
       " ", " ", "{", "motif", "}", " ", "on", " ", "{", "background_treatment", "}",
       " ", "{", "season", "}", "\n", "Extra:", " ", "{", "extra", "}", "\n" >>
TemplateB ==
    << "{", "motif", "}", ",", " ", "{", "base_tones", "}", " ", "{", "typography_copy", "}",
       " ", "(", "{", "aspect", "}", ")" >>
Templates == { TemplateA, TemplateB }

Extras == { <<>>, <<" ", "\n">>, <<" ", "warmer", " ", " ", "gold", "\n">> }

\* the extras the application's submits are explored with
SubmitExtras == { <<>>, <<" ", "warmer", " ", " ", "gold", "\n">> }

Clients == { None, "OpenAI" }

\* what the store may hold from earlier sessions
StoredPrompt(i) == << "stored", " ", "prompt", " ", ToString(i) >>
StoredHistories == { <<>>, [i \in 1..MaxStored |-> StoredPrompt(i)] }

Items == [b64_json : {None, "iVBORw0KGgo="}, url : {None, "https://img/1.png"}]
ItemLists == UNION { [1..n -> Items] : n \in 0..MaxItems }
Responses == { RespNone, RespNoData } \cup { RespData(items) : items \in ItemLists }

\* one response of each shape
ResponsesBrief ==
    { RespNone, RespNoData, RespData(<<>>),
      RespData(<< [b64_json |-> "iVBORw0KGgo=", url |-> None] >>),
      RespData(<< [b64_json |-> None, url |-> None],
                  [b64_json |-> None, url |-> "https://img/1.png"] >>) }

(***************************************************************************)
(* The runs of the script.                                                 *)
(***************************************************************************)
SizeSet == { SizeOptions[i] : i \in DOMAIN SizeOptions }
QualitySet == { QualityOptions[i] : i \in DOMAIN QualityOptions }

NoOutcome == [kind |-> "none", resp |-> RespNone]
NoLocals == [called |-> FALSE]
Locals(r) == [called |-> TRUE, mapping |-> r.mapping, formatted |-> r.formatted]

CallRecord(tk, text, r) ==
    [theme_key |-> tk, extra |-> text, raised |-> r.raised, value |-> r.value]

\* the form's widgets as a run reads them, lines 208-237
FormRead(tk, sz, q, text) ==
    /\ theme_key' = tk
    /\ default_size' = PresetTable[tk]["api_size"]
    /\ default_quality' = PresetTable[tk]["quality_hint"]
    /\ size' = sz
    /\ quality' = q
    /\ extra' = text

\* a submit without a client, lines 270-272
SubmitNoClient(tk, sz, q, text) ==
    /\ pc = "idle"
    /\ budget > 0
    /\ ~ClientConfigured(client)
    /\ budget' = budget - 1
    /\ FormRead(tk, sz, q, text)
    /\ THEMES_PRESETS_MIN' = PresetTable
    /\ shown' = Setup(client) \o << Element("info", MsgNoKey, 0) >>
    /\ api_calls' = 0
    /\ saves' = 0
    /\ gen_kwargs' = <<>>
    /\ submitted' = TRUE
    /\ outcome' = NoOutcome
    /\ UNCHANGED <<NAPKIN_TEMPLATE, calls, client, db, db_at_start, session_state, pc, locals>>

\* a submit with a client, up to the call of images.generate, lines 273-286
SubmitGenerate(tk, text) ==
    /\ pc = "idle"
    /\ budget > 0
    /\ ClientConfigured(client)
    /\ budget' = budget - 1
    /\ \E r \in { build_napkin_prompt(PresetTable, NAPKIN_TEMPLATE, tk, text) } :
       \E sz \in SizeSet, q \in QualitySet :
          /\ FormRead(tk, sz, q, text)
          /\ calls' = Append(calls, CallRecord(tk, text, r))
          /\ locals' = Locals(r)
          /\ THEMES_PRESETS_MIN' = r.presets
          /\ IF r.raised # "none"
             THEN \* the exception ends the run
                  /\ shown' = Setup(client) \o << Element("exception", r.raised, 0) >>
                  /\ api_calls' = 0
                  /\ saves' = 0
                  /\ gen_kwargs' = <<>>
                  /\ UNCHANGED <<db, session_state, pc>>
             ELSE \E sr \in { SaveAndRefresh(db, session_state, r.value) } :
                  /\ db' = sr.db
                  /\ session_state' = sr.session_state
                  /\ saves' = 1
                  /\ gen_kwargs' = GenKwargs(r.value, sz, q)
                  /\ api_calls' = 1
                  /\ pc' = "generating"
                  /\ shown' = Setup(client)
    /\ submitted' = TRUE
    /\ outcome' = NoOutcome
    /\ UNCHANGED <<NAPKIN_TEMPLATE, client, db_at_start>>

\* images.generate raises, lines 287-292
ApiRaises ==
    /\ pc = "generating"
    /\ shown' = shown \o << Element("info", MsgCouldNot, 0) >> \o RenderResponse(RespNone)
    /\ pc' = "idle"
    /\ gen_kwargs' = <<>>
    /\ outcome' = [kind |-> "raised", resp |-> RespNone]
    /\ UNCHANGED <<NAPKIN_TEMPLATE, THEMES_PRESETS_MIN, calls, budget, client, db,
                   db_at_start, session_state, theme_key, size, quality, extra,
                   default_size, default_quality, api_calls, saves, submitted, locals>>

\* images.generate returns, lines 286 and 291-326
ApiReturns(resp) ==
    /\ pc = "generating"
    /\ shown' = shown \o RenderResponse(resp)
    /\ pc' = "idle"
    /\ gen_kwargs' = <<>>
    /\ outcome' = [kind |-> "returned", resp |-> resp]
    /\ UNCHANGED <<NAPKIN_TEMPLATE, THEMES_PRESETS_MIN, calls, budget, client, db,
                   db_at_start, session_state, theme_key, size, quality, extra,
                   default_size, default_quality, api_calls, saves, submitted, locals>>

\* a call of build_napkin_prompt on its own, in one process
CallBuild(tk, text) ==
    /\ budget > 0
    /\ budget' = budget - 1
    /\ \E r \in { build_napkin_prompt(THEMES_PRESETS_MIN, NAPKIN_TEMPLATE, tk, text) } :
          /\ calls' = Append(calls, CallRecord(tk, text, r))
          /\ locals' = Locals(r)
          /\ THEMES_PRESETS_MIN' = r.presets
    /\ UNCHANGED <<NAPKIN_TEMPLATE, client, db, db_at_start, session_state, theme_key,
                   size, quality, extra, default_size, default_quality, pc, gen_kwargs,
                   api_calls, saves, shown, submitted, outcome>>

(***************************************************************************)
(* Specifications.                                                         *)
(***************************************************************************)
vars ==
    << NAPKIN_TEMPLATE, THEMES_PRESETS_MIN, calls, budget, client, db, db_at_start,
       session_state, theme_key, size, quality, extra, default_size, default_quality,
       pc, gen_kwargs, api_calls, saves, shown, submitted, outcome, locals >>

\* the state after the first run of the script, nothing submitted
FirstRun(c, store) ==
    /\ THEMES_PRESETS_MIN = PresetTable
    /\ calls = <<>>
    /\ client = c
    /\ db = store
    /\ db_at_start = store
    /\ session_state = [recent_prompts |-> <<>>, prompt |-> <<>>]
    /\ theme_key = THEME_KEYS[1]
    /\ default_size = PresetTable[THEME_KEYS[1]]["api_size"]
    /\ default_quality = PresetTable[THEME_KEYS[1]]["quality_hint"]
    /\ size = OptionAt(SizeOptions, SizeIndex(PresetTable[THEME_KEYS[1]]["api_size"]))
    /\ quality = OptionAt(QualityOptions, QualityIndex(PresetTable[THEME_KEYS[1]]["quality_hint"]))
    /\ extra = <<>>
    /\ pc = "idle"
    /\ gen_kwargs = <<>>
    /\ api_calls = 0
    /\ saves = 0
    /\ shown = Setup(c)
    /\ submitted = FALSE
    /\ outcome = NoOutcome
    /\ locals = NoLocals

\* the application: submits, each followed by the API's answer
Init ==
    /\ NAPKIN_TEMPLATE \in Templates
    /\ budget = MaxSubmits
    /\ \E c \in Clients, store \in StoredHistories : FirstRun(c, store)

Next ==
    \/ \E tk \in ThemeKeys, sz \in SizeSet, q \in QualitySet, text \in SubmitExtras :
          SubmitNoClient(tk, sz, q, text)
    \/ \E tk \in ThemeKeys, text \in SubmitExtras : SubmitGenerate(tk, text)
    \/ ApiRaises
    \/ \E resp \in ResponsesBrief : ApiReturns(resp)

Spec == Init /\ [][Next]_vars

\* one submit, answered by any response of up to MaxItems items
InitRender ==
    /\ NAPKIN_TEMPLATE = TemplateA
    /\ budget = 1
    /\ FirstRun("OpenAI", <<>>)

NextRender ==
    \/ \E tk \in ThemeKeys, text \in SubmitExtras : SubmitGenerate(tk, text)
    \/ ApiRaises
    \/ \E resp \in Responses : ApiReturns(resp)

SpecRender == InitRender /\ [][NextRender]_vars

\* up to MaxCalls calls of build_napkin_prompt in one process
InitCalls ==
    /\ NAPKIN_TEMPLATE \in Templates
    /\ budget = MaxCalls
    /\ FirstRun(None, <<>>)

NextCalls == \E tk \in ThemeKeys, text \in Extras : CallBuild(tk, text)

SpecCalls == InitCalls /\ [][NextCalls]_vars

\* one call of build_napkin_prompt against any template text
InitBuild ==
    /\ NAPKIN_TEMPLATE \in AnyTemplates
    /\ budget = 1
    /\ FirstRun(None, <<>>)

SpecBuild == InitBuild /\ [][NextCalls]_vars

(***************************************************************************)
(* Properties.  The reference definitions below describe results; they     *)
(* are not part of the program.                                            *)
(***************************************************************************)
FormatPunctuation == {"{", "}", "!", ":", "."}

\* a plain field name: one word, no punctuation of the format language
IsName(a) == ~IsSpace(a) /\ a \notin FormatPunctuation

\* the text from i on is literal text, doubled braces and fields {name}
RECURSIVE PlainFrom(_, _)
PlainFrom(t, i) ==
    IF i > Len(t) THEN TRUE
    ELSE IF t[i] = "{"
         THEN IF i + 1 <= Len(t) /\ t[i + 1] = "{" THEN PlainFrom(t, i + 2)
              ELSE /\ i + 2 <= Len(t)
                   /\ IsName(t[i + 1])
                   /\ t[i + 2] = "}"
                   /\ PlainFrom(t, i + 3)
    ELSE IF t[i] = "}"
         THEN i + 1 <= Len(t) /\ t[i + 1] = "}" /\ PlainFrom(t, i + 2)
    ELSE PlainFrom(t, i + 1)

PlainTemplate(t) == PlainFrom(t, 1)

\* a plain template with every field whose name is not in keys deleted
RECURSIVE DropMissing(_, _, _)
DropMissing(t, i, keys) ==
    IF i > Len(t) THEN <<>>
    ELSE IF t[i] \in {"{", "}"} /\ t[i + 1] = t[i]
         THEN <<t[i], t[i]>> \o DropMissing(t, i + 2, keys)
    ELSE IF t[i] = "{"
         THEN (IF t[i + 1] \in keys THEN SubSeq(t, i, i + 2) ELSE <<>>)
              \o DropMissing(t, i + 3, keys)
    ELSE <<t[i]>> \o DropMissing(t, i + 1, keys)

PromptKeys(tk) == DOMAIN PresetTable[tk] \cup {"theme_label", "extra"}

MissingRendersEmpty(c) ==
    LET kept == DropMissing(NAPKIN_TEMPLATE, 1, PromptKeys(c.theme_key))
        r == build_napkin_prompt(PresetTable, kept, c.theme_key, c.extra)
    IN  c.raised = "none" /\ r.raised = "none" /\ c.value = r.value

\* C1 as stated: for every theme key, every extra and every template text
\* the call does not raise, and a placeholder whose name is not a key renders
\* as the empty string.
C1_TotalForEveryTemplate ==
    \A i \in DOMAIN calls :
        /\ calls[i].raised = "none"
        /\ PlainTemplate(NAPKIN_TEMPLATE) => MissingRendersEmpty(calls[i])

\* C1, amended: for every theme key, every extra and every template that is
\* literal text, doubled braces and fields of the form {name}, the call does
\* not raise and returns what it returns for the template with the fields
\* whose name is not a key deleted.
C1_PlainTemplateTotal ==
    \A i \in DOMAIN calls :
        PlainTemplate(NAPKIN_TEMPLATE) => MissingRendersEmpty(calls[i])

C1_Witness ==
    /\ calls # <<>>
    /\ NAPKIN_TEMPLATE = <<"{", "season", "}", "{", "motif", "}">>
    /\ calls[1].raised = "none"
    /\ calls[1].value = PresetTable[calls[1].theme_key]["motif"]

AllSpace(s) == \A i \in DOMAIN s : IsSpace(s[i])

\* r is s without its leading and trailing whitespace
IsStripOf(r, s) ==
    /\ \E a, b \in 0..Len(s) :
          /\ a + b <= Len(s)
          /\ r = SubSeq(s, a + 1, Len(s) - b)
          /\ AllSpace(SubSeq(s, 1, a))
          /\ AllSpace(SubSeq(s, Len(s) - b + 1, Len(s)))
    /\ r # <<>> => ~IsSpace(r[1]) /\ ~IsSpace(r[Len(r)])

\* every run of whitespace replaced by one space
RECURSIVE Collapse(_)
Collapse(s) ==
    IF s = <<>> THEN <<>>
    ELSE IF ~IsSpace(s[1]) THEN <<s[1]>> \o Collapse(Tail(s))
    ELSE IF Len(s) > 1 /\ IsSpace(s[2]) THEN Collapse(Tail(s))
    ELSE <<" ">> \o Collapse(Tail(s))

\* s without the one space it may start and end with
Trim(s) ==
    LET a == IF s # <<>> /\ s[1] = " " THEN 2 ELSE 1
        b == IF Len(s) >= a /\ s[Len(s)] = " " THEN Len(s) - 1 ELSE Len(s)
    IN  SubSeq(s, a, b)

\* C9: an extra that is empty or only whitespace is substituted as the dash,
\* any other extra stripped, every preset value as its stripped form; the
\* prompt returned has no leading or trailing whitespace, and each run of
\* whitespace of the formatted text is one space in it.
C9_Normalised ==
    \A i \in DOMAIN calls :
        (i = Len(calls) /\ calls[i].raised = "none") =>
            LET c == calls[i]
                m == locals.mapping
                v == c.value
            IN  /\ AllSpace(c.extra) => m["extra"] = DASH
                /\ ~AllSpace(c.extra) => IsStripOf(m["extra"], c.extra)
                /\ \A k \in DOMAIN PresetTable[c.theme_key] :
                      IsStripOf(m[k], PresetTable[c.theme_key][k])
                /\ v # <<>> => ~IsSpace(v[1]) /\ ~IsSpace(v[Len(v)])
                /\ \A j \in 1..(Len(v) - 1) : ~(IsSpace(v[j]) /\ IsSpace(v[j + 1]))
                /\ v = Trim(Collapse(locals.formatted))

C9_Witness ==
    /\ calls # <<>>
    /\ calls[1].raised = "none"
    /\ calls[1].extra = <<" ", "warmer", " ", " ", "gold", "\n">>
    /\ NAPKIN_TEMPLATE = <<"\n", "{", "extra", "}">>
    /\ calls[1].value = <<"warmer", " ", "gold">>

\* C2: two calls with the same theme key and an empty extra return the same
\* prompt, whatever calls were made between them.
C2_Deterministic ==
    \A i, j \in DOMAIN calls :
        ( /\ calls[i].theme_key = calls[j].theme_key
          /\ calls[i].extra = <<>>
          /\ calls[j].extra = <<>> )
        => calls[i].raised = calls[j].raised /\ calls[i].value = calls[j].value

C2_Witness ==
    /\ Len(calls) = 3
    /\ NAPKIN_TEMPLATE = TemplateA
    /\ calls[1].theme_key = calls[3].theme_key
    /\ calls[1].extra = <<>> /\ calls[3].extra = <<>>
    /\ calls[2].theme_key = calls[1].theme_key
    /\ calls[2].extra = <<" ", "warmer", " ", " ", "gold", "\n">>
    /\ calls[2].value # calls[1].value
    /\ calls[3].value = calls[1].value

\* C10: after any calls of build_napkin_prompt the preset table has the theme
\* keys, attributes and values it started with; no preset has a theme_label
\* or an extra.
C10_TableUnchanged ==
    /\ DOMAIN THEMES_PRESETS_MIN = ThemeKeys
    /\ \A t \in ThemeKeys :
          /\ THEMES_PRESETS_MIN[t] = PresetTable[t]
          /\ "theme_label" \notin DOMAIN THEMES_PRESETS_MIN[t]
          /\ "extra" \notin DOMAIN THEMES_PRESETS_MIN[t]

C10_Witness ==
    /\ Len(calls) = 3
    /\ calls[1].theme_key # calls[2].theme_key
    /\ calls[2].extra # <<>>
    /\ calls[3].theme_key = calls[1].theme_key
    /\ \A i \in DOMAIN calls : calls[i].raised = "none" /\ calls[i].value # <<>>

Infos(page) == SelectSeq(page, LAMBDA e : e.widget = "info")
Images(page) == SelectSeq(page, LAMBDA e : e.widget = "image")
Crashed(page) == \E i \in DOMAIN page : page[i].widget = "exception"

\* C3: the default option of Size is the preset's api_size and the default
\* option of Quality the preset's quality_hint, for the theme the form holds.
C3_DefaultsFollowPreset ==
    /\ default_size = PresetTable[theme_key]["api_size"]
    /\ default_quality = PresetTable[theme_key]["quality_hint"]
    /\ OptionAt(SizeOptions, SizeIndex(default_size)) = PresetTable[theme_key]["api_size"]
    /\ OptionAt(QualityOptions, QualityIndex(default_quality))
          = PresetTable[theme_key]["quality_hint"]

C3_Witness ==
    /\ submitted
    /\ theme_key = TropicalParty
    /\ default_quality = <<"standard">>
    /\ OptionAt(QualityOptions, QualityIndex(default_quality)) = <<"standard">>
    /\ OptionAt(SizeOptions, SizeIndex(default_size)) = <<"1024x1024">>

NoData(resp) == resp.is_none \/ resp.data_is_none \/ resp.data = <<>>

\* C4: when images.generate raises, or returns nothing, no data or an empty
\* list, the run ends without an exception, shows an informational message
\* and no image.
C4_FailureReported ==
    (outcome.kind = "raised" \/ (outcome.kind = "returned" /\ NoData(outcome.resp))) =>
        /\ pc = "idle"
        /\ ~Crashed(shown)
        /\ Infos(shown) # <<>>
        /\ Infos(shown)[Len(Infos(shown))].detail = MsgNoImage
        /\ outcome.kind = "raised" => Infos(shown)[1].detail = MsgCouldNot
        /\ Images(shown) = <<>>

C4_Witness ==
    /\ outcome.kind = "raised"
    /\ Len(Infos(shown)) = 2
    /\ Images(shown) = <<>>

\* what the page shows for item i
ShownFor(i) == SelectSeq(shown, LAMBDA e : e.i = i)

\* C5: each item of a non-empty response yields exactly one outcome, in the
\* order of the items: the base64 image if it has a payload, else the URL
\* image if it has a URL, else the message "Unrecognized response format";
\* the run does not end in an exception.
C5_EveryItemRendered ==
    (outcome.kind = "returned" /\ ~NoData(outcome.resp)) =>
        LET data == outcome.resp.data
            outcomes == SelectSeq(shown, LAMBDA e : e.widget \in {"image", "info"})
        IN  /\ ~Crashed(shown)
            /\ Len(outcomes) = Len(data)
            /\ \A i \in DOMAIN data :
                  /\ outcomes[i].i = i
                  /\ outcomes[i] =
                        IF data[i].b64_json # None THEN Element("image", "b64_json", i)
                        ELSE IF data[i].url # None THEN Element("image", "url", i)
                        ELSE Element("info", MsgUnrecognized, i)

C5_Witness ==
    /\ outcome.kind = "returned"
    /\ Len(outcome.resp.data) = 2
    /\ outcome.resp.data[1] = [b64_json |-> None, url |-> None]
    /\ outcome.resp.data[2] = [b64_json |-> "iVBORw0KGgo=", url |-> "https://img/1.png"]
    /\ ShownFor(1) = << Element("info", MsgUnrecognized, 1) >>
    /\ ShownFor(2)[1] = Element("image", "b64_json", 2)

\* C6: a submit makes at most one call of images.generate: one with a
\* client, whether the call returns or raises, and without a client none, no
\* save and one informational message.
C6_AtMostOneCall ==
    /\ api_calls <= 1
    /\ (submitted /\ client # None) => api_calls = 1
    /\ client = None =>
          /\ api_calls = 0
          /\ saves = 0
          /\ db = db_at_start
          /\ submitted => Len(Infos(shown)) = 1 /\ Infos(shown)[1].detail = MsgNoKey

C6_Witness ==
    /\ submitted
    /\ client = "OpenAI"
    /\ outcome.kind = "raised"
    /\ api_calls = 1
    /\ budget = 0

\* C7: the request carries model, prompt and size, the prompt built for the
\* submitted theme and extra and the size selected in the form; it carries
\* quality exactly when the selected quality is not "standard", with the
\* selected value.
C7_RequestFields ==
    pc = "generating" =>
        /\ DOMAIN gen_kwargs =
              {"model", "prompt", "size"}
                 \cup (IF quality = <<"standard">> THEN {} ELSE {"quality"})
        /\ gen_kwargs["model"] = <<"dall-e-3">>
        /\ calls[Len(calls)].theme_key = theme_key
        /\ calls[Len(calls)].extra = extra
        /\ gen_kwargs["prompt"] = calls[Len(calls)].value
        /\ gen_kwargs["size"] = size
        /\ size \in SizeSet
        /\ quality # <<"standard">> => gen_kwargs["quality"] = quality

C7_Witness ==
    /\ pc = "generating"
    /\ quality = <<"standard">>
    /\ default_quality = <<"hd">>
    /\ size = <<"1792x1024">>
    /\ "quality" \notin DOMAIN gen_kwargs
    /\ gen_kwargs["size"] = <<"1792x1024">>

Count(s, x) == Cardinality({ i \in DOMAIN s : s[i] = x })
Newest(s, n) == SubSeq(s, IF Len(s) > n THEN Len(s) - n + 1 ELSE 1, Len(s))
SameEntries(s, t) ==
    /\ Len(s) = Len(t)
    /\ \A i \in DOMAIN s : Count(s, s[i]) = Count(t, s[i])

\* C8: the store is what the session found followed by the prompts of the
\* submits made with a client, in order, the newest saved before the API is
\* called and kept when the call fails; recent_prompts then holds the most
\* recent 5 entries of the store.
C8_AppendOnly ==
    /\ db = db_at_start \o [i \in DOMAIN calls |-> calls[i].value]
    /\ pc = "generating" => saves = 1 /\ db[Len(db)] = gen_kwargs["prompt"]
    /\ calls # <<>> =>
          SameEntries(session_state.recent_prompts, Newest(db, RECENT_LIMIT))
    /\ calls = <<>> => session_state.recent_prompts = <<>>

C8_Witness ==
    /\ Len(calls) = 2
    /\ outcome.kind = "raised"
    /\ Len(db) = Len(db_at_start) + 2
    /\ Len(db) > RECENT_LIMIT
    /\ Len(session_state.recent_prompts) = RECENT_LIMIT
    /\ calls[1].value # calls[2].value
====
